---------------------------- MODULE Spec2Model ----------------------------
(***************************************************************************)
(* The room-availability and reservation engine of ATOMreservations:       *)
(* backend/calendar.py (the occupancy ledger, a linked list of month nodes *)
(* holding linked lists of day nodes), backend/reservation_system.py (the  *)
(* availability check, the ID counter and the registry reservations_db),   *)
(* backend/reservation_controller.py (make/cancel, the room types offered  *)
(* for a stay, the reservation CSV and its load at start-up),              *)
(* backend/customer_controller.py (add, find, update, remove and the       *)
(* customer CSV), backend/customer.py (the class counter of constructed    *)
(* customers) and the point lookup of backend/manager_report.py.           *)
(*                                                                         *)
(* Python values are modelled as follows.  A linked list is the sequence   *)
(* of its nodes, None (an empty list) being << >>.  A str is the sequence  *)
(* of its characters where the code formats or parses it (reservation IDs, *)
(* "MM-DD" dates), so that formatting and parsing are computed, and a TLA+ *)
(* string where the code only compares it (room type names, emails).  A    *)
(* (month, day) tuple is <<month, day>>.  A Customer object passed by the  *)
(* caller is named by a string, its attributes given by CustomerAttr; the  *)
(* caller's None is the name NoCustomer.                                   *)
(***************************************************************************)
EXTENDS Integers, Sequences, FiniteSets, TLC

VARIABLES
    calendar_head,        \* ReservationSystem.calendar_head: the month list
    reservations_db,      \* ReservationSystem.reservations_db: id -> record
    reservation_counter,  \* module global reservation_counter
    reservations,         \* ReservationController.reservations
    csv_file,             \* rows of the controller's reservations.csv
    customers,            \* CustomerController.customers
    customers_csv,        \* rows of the customer controller's customers.csv
    number_of_customers,  \* class attribute Customer.number_of_customers
    second_system,        \* a second ReservationSystem of the process (SpecTwo)
    pc,                   \* "ready", or "hung" once a call never returns
    hist,                 \* the last call: its arguments and what it returned
    issued,               \* every reservation ID returned so far, in order
    threads               \* concurrent callers of make_reservation (SpecConc)

vars == <<calendar_head, reservations_db, reservation_counter, reservations,
          csv_file, customers, customers_csv, number_of_customers,
          second_system, pc, hist, issued, threads>>

---------------------------------------------------------------------------
(* Bounds of the model *)

\* a reservation ID is issued only while reservation_counter <= MaxIssued
MaxIssued == 4

\* the program is started again only while at most MaxBeforeStart IDs were issued
MaxBeforeStart == 1

(* Program constants *)

\* calendar.py:107 / reservation_system.py:42: every month has 30 days
DaysPerMonth == 30

\* reservation_system.py:72: the width of the zero-padded ID number
IdWidth == 4

---------------------------------------------------------------------------
(* Python helpers *)

None == << >>

Digits == <<"0", "1", "2", "3", "4", "5", "6", "7", "8", "9">>

\* str(n) for n >= 0: the decimal digits of n
RECURSIVE Decimal(_)
Decimal(n) ==
    IF n < 10 THEN <<Digits[n + 1]>>
    ELSE Append(Decimal(n \div 10), Digits[(n % 10) + 1])

\* format(n, "0<width>d"): zero-padded on the left to width, never truncated
RECURSIVE ZeroPad(_, _)
ZeroPad(s, width) ==
    IF Len(s) >= width THEN s ELSE ZeroPad(<<"0">> \o s, width)

DigitValue(c) == CHOOSE v \in 0..9 : Digits[v + 1] = c

\* int(s) for a string of decimal digits
RECURSIVE ParseInt(_)
ParseInt(s) ==
    IF Len(s) = 1 THEN DigitValue(s[1])
    ELSE 10 * ParseInt(SubSeq(s, 1, Len(s) - 1)) + DigitValue(s[Len(s)])

\* s.split("-"): the pieces of s between the "-" characters
RECURSIVE Split(_)
Split(s) ==
    IF \A i \in 1..Len(s) : s[i] # "-" THEN <<s>>
    ELSE LET k == CHOOSE i \in 1..Len(s) :
                      s[i] = "-" /\ \A j \in 1..(i - 1) : s[j] # "-"
         IN  <<SubSeq(s, 1, k - 1)>> \o Split(SubSeq(s, k + 1, Len(s)))

InsertAt(seq, k, x) == SubSeq(seq, 1, k - 1) \o <<x>> \o SubSeq(seq, k, Len(seq))

---------------------------------------------------------------------------
(* backend/database.py *)

Room(room_id, room_type, beds, max_guests, price) ==
    [room_id |-> room_id, room_type |-> room_type, beds |-> beds,
     max_guests |-> max_guests, price |-> price, is_available |-> TRUE]

\* Hotel.__init__: rooms 101.. in the order the four loops append them
HotelRooms ==
    [i \in 1..5  |-> Room(100 + i, "Single Room", 1, 2, 100)] \o
    [i \in 1..10 |-> Room(105 + i, "Double Room", 2, 4, 150)] \o
    [i \in 1..6  |-> Room(115 + i, "Family Room", 3, 6, 200)] \o
    [i \in 1..3  |-> Room(121 + i, "VIP Suite", 1, 3, 300)]

---------------------------------------------------------------------------
(* backend/calendar.py *)

MonthNode(month_number) ==
    [month_number |-> month_number, day_list_head |-> None]

DayNode(day_number) == [day_number |-> day_number, bookings |-> << >>]

\* the node the scan "while current and current.month_number < month" stops at
MonthPos(head, month) ==
    CHOOSE k \in 1..(Len(head) + 1) :
        /\ \A i \in 1..(k - 1) : head[i].month_number < month
        /\ (k <= Len(head) => ~(head[k].month_number < month))

\* DayPos with the scan going on over a node of the same day number
DayPosPastEqual(days, day) ==
    CHOOSE k \in 1..(Len(days) + 1) :
        /\ \A i \in 1..(k - 1) : days[i].day_number <= day
        /\ (k <= Len(days) => ~(days[k].day_number <= day))

\* the node the scan "while current_day and current_day.day_number < day" stops at
DayPos(days, day) ==
    CHOOSE k \in 1..(Len(days) + 1) :
        /\ \A i \in 1..(k - 1) : days[i].day_number < day
        /\ (k <= Len(days) => ~(days[k].day_number < day))

\* UpdateBookings with line 96 true of every tuple
UpdateBookingsEvery(bookings, name) ==
    IF \E i \in 1..Len(bookings) : bookings[i][1] = name
    THEN [i \in 1..Len(bookings) |-> <<bookings[i][1], bookings[i][2] + 1>>]
    ELSE Append(bookings, <<name, 1>>)

\* UpdateBookings appending (name, 1) whether or not the type has a tuple
UpdateBookingsAppend(bookings, name) == Append(bookings, <<name, 1>>)

\* lines 93-100: add 1 to every tuple of the room type, or append (name, 1)
UpdateBookings(bookings, name) ==
    IF \E i \in 1..Len(bookings) : bookings[i][1] = name
    THEN [i \in 1..Len(bookings) |->
             IF bookings[i][1] = name
             THEN <<bookings[i][1], bookings[i][2] + 1>>
             ELSE bookings[i]]
    ELSE Append(bookings, <<name, 1>>)

\* lines 64-100: one pass of the loop body, for the date (month, day)
StoreDay(head, month, day, name) ==
    LET h0   == IF head = None THEN <<MonthNode(month)>> ELSE head
        k    == MonthPos(h0, month)
        h1   == IF k <= Len(h0) /\ h0[k].month_number = month
                THEN h0 ELSE InsertAt(h0, k, MonthNode(month))
        days == h1[k].day_list_head
        j    == DayPos(days, day)
        d1   == IF j <= Len(days) /\ days[j].day_number = day
                THEN days ELSE InsertAt(days, j, DayNode(day))
        b1   == UpdateBookings(d1[j].bookings, name)
    IN  [h1 EXCEPT ![k].day_list_head = [d1 EXCEPT ![j].bookings = b1]]

\* The walk of both range loops only moves forward, so once (month, day) is
\* after the end date the test for the end date is false on every later pass.
PastEnd(month, day, end_month, end_day) ==
    month > end_month \/ (month = end_month /\ day > end_day)

\* NextDate with months of 31 days
NextDateThirtyOne(month, day) ==
    IF day + 1 > DaysPerMonth + 1 THEN <<month + 1, 1>> ELSE <<month, day + 1>>

\* lines 106-108 (and reservation_system.py 41-44): the date after (month, day)
NextDate(month, day) ==
    IF day + 1 > DaysPerMonth THEN <<month + 1, 1>> ELSE <<month, day + 1>>

\* The loop of store_booking_range from (month, day) on.  returns is FALSE
\* when the loop never reaches its break; visited lists the dates stored.
RECURSIVE StoreLoop(_, _, _, _, _, _, _)
StoreLoop(month, day, end_month, end_day, name, head, visited) ==
    LET h == StoreDay(head, month, day, name)
        v == Append(visited, <<month, day>>)
        n == NextDate(month, day)
    IN  IF month = end_month /\ day = end_day
        THEN [returns |-> TRUE, head |-> h, visited |-> v]
        ELSE IF PastEnd(month, day, end_month, end_day)
        THEN [returns |-> FALSE, head |-> h, visited |-> v]
        ELSE StoreLoop(n[1], n[2], end_month, end_day, name, h, v)

store_booking_range(start_month, start_day, end_month, end_day, room_type, head) ==
    StoreLoop(start_month, start_day, end_month, end_day, room_type.name,
              head, << >>)

\* manager_report.py, lines 61-73: the quantity of the first tuple of the room
\* type in the day nodes numbered day of the first month node numbered month,
\* 0 when the scan ends without one.  room_type is a catalog dictionary.
count_booked_rooms(month, day, room_type, head) ==
    LET months == {m \in 1..Len(head) : head[m].month_number = month}
    IN  IF months = {} THEN 0
        ELSE LET m     == CHOOSE x \in months : \A y \in months : x <= y
                 days  == head[m].day_list_head
                 \* <<d, t>>: tuple t of day node d, in the order of the scan
                 found == UNION {{<<d, t>> :
                                     t \in {x \in 1..Len(days[d].bookings) :
                                               days[d].bookings[x][1] = room_type.name}} :
                                 d \in {x \in 1..Len(days) : days[x].day_number = day}}
             IN  IF found = {} THEN 0
                 ELSE LET first == CHOOSE a \in found : \A b \in found :
                                       a[1] < b[1] \/ (a[1] = b[1] /\ a[2] <= b[2])
                      IN  days[first[1]].bookings[first[2]][2]

\* The point lookup reservation_system.py imports from backend.calendar:
\* the quantity booked for the room type on (month, day), 0 without an entry.
get_booked_quantity(month, day, room_type, head) ==
    IF \E m \in 1..Len(head) : head[m].month_number = month
    THEN LET m    == CHOOSE i \in 1..Len(head) :
                         /\ head[i].month_number = month
                         /\ \A j \in 1..(i - 1) : head[j].month_number # month
             days == head[m].day_list_head
         IN  IF \E d \in 1..Len(days) : days[d].day_number = day
             THEN LET d == CHOOSE i \in 1..Len(days) :
                               /\ days[i].day_number = day
                               /\ \A j \in 1..(i - 1) : days[j].day_number # day
                      b == days[d].bookings
                  IN  IF \E t \in 1..Len(b) : b[t][1] = room_type
                      THEN LET t == CHOOSE i \in 1..Len(b) :
                                        /\ b[i][1] = room_type
                                        /\ \A j \in 1..(i - 1) : b[j][1] # room_type
                           IN  b[t][2]
                      ELSE 0
             ELSE 0
    ELSE 0

---------------------------------------------------------------------------
(* backend/reservation_system.py *)

\* total_quantity with a default of one room for a type the hotel lacks
total_quantity_default(room_type) ==
    LET n == Cardinality({i \in 1..Len(HotelRooms) :
                              HotelRooms[i].room_type = room_type})
    IN  IF n = 0 THEN 1 ELSE n

\* line 28: the number of rooms of the hotel with this room type
total_quantity(room_type) ==
    Cardinality({i \in 1..Len(HotelRooms) : HotelRooms[i].room_type = room_type})

\* No lookup at or after month can find an entry: the calendar holds no such month.
NoMonthFrom(month, head) ==
    \A i \in 1..Len(head) : head[i].month_number < month

\* CheckLoop with line 34 as "booked > total_quantity"
RECURSIVE CheckLoopOffByOne(_, _, _, _, _, _, _, _)
CheckLoopOffByOne(month, day, end_month, end_day, room_type, total, head, visited) ==
    LET booked == get_booked_quantity(month, day, room_type, head)
        v      == Append(visited, <<month, day>>)
        n      == NextDate(month, day)
    IN  IF booked > total
        THEN [returns |-> TRUE, value |-> FALSE, visited |-> v]
        ELSE IF <<month, day>> = <<end_month, end_day>>
        THEN [returns |-> TRUE, value |-> TRUE, visited |-> v]
        ELSE IF PastEnd(month, day, end_month, end_day) /\ NoMonthFrom(month, head)
        THEN [returns |-> FALSE, value |-> FALSE, visited |-> v]
        ELSE CheckLoopOffByOne(n[1], n[2], end_month, end_day, room_type, total,
                               head, v)

\* CheckLoop with the test for the end date (line 38) before the lookup, so
\* that the end date itself is not examined
RECURSIVE CheckLoopExclusive(_, _, _, _, _, _, _, _)
CheckLoopExclusive(month, day, end_month, end_day, room_type, total, head, visited) ==
    LET booked == get_booked_quantity(month, day, room_type, head)
        v      == Append(visited, <<month, day>>)
        n      == NextDate(month, day)
    IN  IF <<month, day>> = <<end_month, end_day>>
        THEN [returns |-> TRUE, value |-> TRUE, visited |-> visited]
        ELSE IF booked >= total
        THEN [returns |-> TRUE, value |-> FALSE, visited |-> v]
        ELSE IF PastEnd(month, day, end_month, end_day) /\ NoMonthFrom(month, head)
        THEN [returns |-> FALSE, value |-> FALSE, visited |-> v]
        ELSE CheckLoopExclusive(n[1], n[2], end_month, end_day, room_type, total,
                                head, v)

\* lines 32-46: the loop of check_availability from (month, day) on.  returns
\* is FALSE when the loop never ends: the walk is past the end date, so the
\* break at line 38 is out of reach, and past every month of the calendar, so
\* every later lookup yields 0 and line 34 is out of reach as well (total > 0
\* here, line 34 having passed for this date).  visited lists the dates looked up.
RECURSIVE CheckLoop(_, _, _, _, _, _, _, _)
CheckLoop(month, day, end_month, end_day, room_type, total, head, visited) ==
    LET booked == get_booked_quantity(month, day, room_type, head)
        v      == Append(visited, <<month, day>>)
        n      == NextDate(month, day)
    IN  IF booked >= total
        THEN [returns |-> TRUE, value |-> FALSE, visited |-> v]
        ELSE IF <<month, day>> = <<end_month, end_day>>
        THEN [returns |-> TRUE, value |-> TRUE, visited |-> v]
        ELSE IF PastEnd(month, day, end_month, end_day) /\ NoMonthFrom(month, head)
        THEN [returns |-> FALSE, value |-> FALSE, visited |-> v]
        ELSE CheckLoop(n[1], n[2], end_month, end_day, room_type, total, head, v)

check_availability(room_type, check_in, check_out, head) ==
    CheckLoop(check_in[1], check_in[2], check_out[1], check_out[2], room_type,
              total_quantity(room_type), head, << >>)

\* line 57: the room types of the hotel's rooms
room_types == {HotelRooms[i].room_type : i \in 1..Len(HotelRooms)}

\* line 59 iterates a set: the types come in an order the run chooses
Orders(types) ==
    {order \in [1..Cardinality(types) -> types] :
        \A i, j \in 1..Cardinality(types) : order[i] = order[j] => i = j}

\* the orders in which line 59 can visit the room types of the hotel
RoomTypeOrders == Orders(room_types)

\* line 60: the first room of the hotel with the room type
sample_room(rtype) ==
    HotelRooms[CHOOSE i \in 1..Len(HotelRooms) :
                   /\ HotelRooms[i].room_type = rtype
                   /\ \A j \in 1..(i - 1) : HotelRooms[j].room_type # rtype]

\* AvailableLoop with line 61 as "sample_room.max_guests > num_guests"
RECURSIVE AvailableLoopStrict(_, _, _, _, _, _)
AvailableLoopStrict(order, check_in, check_out, num_guests, head, available_rooms) ==
    IF order = << >>
    THEN [returns |-> TRUE, value |-> available_rooms]
    ELSE LET rtype == Head(order)
             room  == sample_room(rtype)
             avail == check_availability(rtype, check_in, check_out, head)
             entry == [name |-> rtype, max_guests |-> room.max_guests,
                       price |-> room.price]
         IN  IF ~(room.max_guests > num_guests)
             THEN AvailableLoopStrict(Tail(order), check_in, check_out, num_guests,
                                      head, available_rooms)
             ELSE IF ~avail.returns
             THEN [returns |-> FALSE, value |-> available_rooms]
             ELSE AvailableLoopStrict(Tail(order), check_in, check_out, num_guests,
                                      head,
                                      IF avail.value
                                      THEN Append(available_rooms, entry)
                                      ELSE available_rooms)

\* lines 59-67: the loop over the room types still to visit.  "and" evaluates
\* check_availability only for a type with room for the guests; returns is
\* FALSE when that call never returns.
RECURSIVE AvailableLoop(_, _, _, _, _, _)
AvailableLoop(order, check_in, check_out, num_guests, head, available_rooms) ==
    IF order = << >>
    THEN [returns |-> TRUE, value |-> available_rooms]
    ELSE LET rtype == Head(order)
             room  == sample_room(rtype)
             avail == check_availability(rtype, check_in, check_out, head)
             entry == [name |-> rtype, max_guests |-> room.max_guests,
                       price |-> room.price]
         IN  IF ~(room.max_guests >= num_guests)
             THEN AvailableLoop(Tail(order), check_in, check_out, num_guests,
                                head, available_rooms)
             ELSE IF ~avail.returns
             THEN [returns |-> FALSE, value |-> available_rooms]
             ELSE AvailableLoop(Tail(order), check_in, check_out, num_guests,
                                head,
                                IF avail.value
                                THEN Append(available_rooms, entry)
                                ELSE available_rooms)

\* lines 48-67, the set of line 57 being iterated in the given order
get_available_room_types(check_in, check_out, num_guests, head, order) ==
    AvailableLoop(order, check_in, check_out, num_guests, head, << >>)

\* generate_reservation_id without line 73
generate_reservation_id_no_increment(counter) ==
    [rid     |-> <<"R">> \o ZeroPad(Decimal(counter), IdWidth),
     counter |-> counter]

\* lines 69-74: the ID for the counter's value, and the counter's next value
generate_reservation_id(counter) ==
    [rid     |-> <<"R">> \o ZeroPad(Decimal(counter), IdWidth),
     counter |-> counter + 1]

\* reservations_db[rid] = record
DbPut(db, rid, record) ==
    [id \in (DOMAIN db) \cup {rid} |-> IF id = rid THEN record ELSE db[id]]

\* dates stored one by one
RECURSIVE StoreDates(_, _, _)
StoreDates(head, dates, name) ==
    IF dates = << >> THEN head
    ELSE StoreDates(StoreDay(head, dates[1][1], dates[1][2], name), Tail(dates), name)

\* make_reservation booking each date as it is found free, so that a date at
\* capacity later in the range leaves the earlier dates booked
make_reservation_partial(customer, room_type, check_in, check_out, head, db, counter) ==
    LET avail == check_availability(room_type, check_in, check_out, head)
        free  == SubSeq(avail.visited, 1, Len(avail.visited) - 1)
    IN  IF ~avail.returns
        THEN [returns |-> FALSE, rid |-> None, head |-> head, db |-> db,
              counter |-> counter, checked |-> avail.visited, stored |-> << >>]
        ELSE IF ~avail.value
        THEN [returns |-> TRUE, rid |-> None,
              head |-> StoreDates(head, free, room_type), db |-> db,
              counter |-> counter, checked |-> avail.visited, stored |-> free]
        ELSE LET g  == [rid     |-> <<"R">> \o ZeroPad(Decimal(counter), IdWidth),
                        counter |-> counter + 1]
                 st == store_booking_range(check_in[1], check_in[2],
                                           check_out[1], check_out[2],
                                           [name |-> room_type], head)
             IN  [returns |-> st.returns, rid |-> g.rid, head |-> st.head,
                  db |-> DbPut(db, g.rid,
                               [customer |-> customer, room_type |-> room_type,
                                check_in |-> check_in, check_out |-> check_out]),
                  counter |-> g.counter, checked |-> avail.visited,
                  stored |-> st.visited]

\* make_reservation taking the ID before it checks the availability
make_reservation_eager_id(customer, room_type, check_in, check_out, head, db, counter) ==
    LET g     == generate_reservation_id(counter)
        avail == check_availability(room_type, check_in, check_out, head)
    IN  IF ~avail.returns \/ ~avail.value
        THEN [returns |-> avail.returns, rid |-> None, head |-> head, db |-> db,
              counter |-> g.counter, checked |-> avail.visited, stored |-> << >>]
        ELSE LET st == store_booking_range(check_in[1], check_in[2],
                                           check_out[1], check_out[2],
                                           [name |-> room_type], head)
             IN  [returns |-> st.returns, rid |-> g.rid, head |-> st.head,
                  db |-> DbPut(db, g.rid,
                               [customer |-> customer, room_type |-> room_type,
                                check_in |-> check_in, check_out |-> check_out]),
                  counter |-> g.counter, checked |-> avail.visited,
                  stored |-> st.visited]

\* lines 85-97.  The result gives what the call returns (rid, None when it is
\* rejected; returns is FALSE when the call never returns) and the values it
\* leaves in calendar_head, reservations_db and reservation_counter.
make_reservation(customer, room_type, check_in, check_out, head, db, counter) ==
    LET avail == check_availability(room_type, check_in, check_out, head)
        kept  == [returns |-> avail.returns, rid |-> None, head |-> head,
                  db |-> db, counter |-> counter,
                  checked |-> avail.visited, stored |-> << >>]
    IN  IF ~avail.returns \/ ~avail.value
        THEN kept
        ELSE LET g  == generate_reservation_id(counter)
                 st == store_booking_range(check_in[1], check_in[2],
                                           check_out[1], check_out[2],
                                           [name |-> room_type], head)
             IN  [returns |-> st.returns,
                  rid     |-> g.rid,
                  head    |-> st.head,
                  db      |-> DbPut(db, g.rid,
                                    [customer |-> customer, room_type |-> room_type,
                                     check_in |-> check_in, check_out |-> check_out]),
                  counter |-> g.counter,
                  checked |-> avail.visited,
                  stored  |-> st.visited]

---------------------------------------------------------------------------
(* backend/customer.py *)

\* add_to_customercount without the increment of line 37
add_to_customercount_skipped(count) == count

\* lines 35-37: Customer.number_of_customers after add_to_customercount()
add_to_customercount(count) == count + 1

\* lines 11-24: the attributes of a Customer object
Customer(first_name, last_name, email, phone, address) ==
    [first_name |-> first_name, last_name |-> last_name, email |-> email,
     phone |-> phone, address |-> address]

\* backend/address.py, lines 7-12: the attributes of an Address object
Address(street, city, state, zipcode, country) ==
    [street |-> street, city |-> city, state |-> state, zipcode |-> zipcode,
     country |-> country]

---------------------------------------------------------------------------
(* backend/customer_controller.py *)

NoCustomer == "None"

\* The Customer objects a caller passes to make_reservation
CustomerAttr(c) ==
    [first_name |-> c, last_name |-> "Guest", email |-> c,
     phone |-> "818-123-4567",
     address |-> [street |-> "123 csun street", city |-> "Northridge",
                  state |-> "CA", zipcode |-> "91330", country |-> "USA"]]

\* find_customer_by_email finding no customer
find_customer_by_email_none(list, email) == None

\* lines 38-45: the first customer of the list with the email, None without one
find_customer_by_email(list, email) ==
    IF \E i \in 1..Len(list) : list[i].email = email
    THEN <<list[CHOOSE i \in 1..Len(list) :
                    /\ list[i].email = email
                    /\ \A j \in 1..(i - 1) : list[j].email # email]>>
    ELSE None

\* the row save_customers_to_csv / save_all_customers_to_csv write for a customer
CustomerRow(customer) ==
    [first_name |-> customer.first_name, last_name |-> customer.last_name,
     email |-> customer.email, phone |-> customer.phone,
     street |-> customer.address.street, city |-> customer.address.city,
     state |-> customer.address.state, zipcode |-> customer.address.zipcode,
     country |-> customer.address.country]

\* add_customer with line 29 as "self.customers = [customer]"
add_customer_replacing(first_name, last_name, email, phone, address, list, rows, count) ==
    IF \E i \in 1..Len(list) : list[i].email = email
    THEN [value |-> FALSE, customers |-> list, rows |-> rows,
          number_of_customers |-> count]
    ELSE [value     |-> TRUE,
          customers |-> <<[first_name |-> first_name, last_name |-> last_name,
                           email |-> email, phone |-> phone,
                           address |-> address]>>,
          rows      |-> Append(rows, [first_name |-> first_name,
                                      last_name |-> last_name, email |-> email,
                                      phone |-> phone, street |-> address.street,
                                      city |-> address.city,
                                      state |-> address.state,
                                      zipcode |-> address.zipcode,
                                      country |-> address.country]),
          number_of_customers |-> count + 1]

\* lines 20-34: the value returned, and the customer list, the CSV rows and
\* Customer.number_of_customers after it
add_customer(first_name, last_name, email, phone, address, list, rows, count) ==
    IF find_customer_by_email(list, email) # None
    THEN [value |-> FALSE, customers |-> list, rows |-> rows,
          number_of_customers |-> count]
    ELSE LET customer == Customer(first_name, last_name, email, phone, address)
         IN  [value     |-> TRUE,
              customers |-> Append(list, customer),
              rows      |-> Append(rows, CustomerRow(customer)),
              number_of_customers |-> add_to_customercount(count)]

\* dict.get(key, default), a dict being a function of its keys
Get(dict, key, default) == IF key \in DOMAIN dict THEN dict[key] ELSE default

\* lines 48-60: the first customer with the email takes the values new_info
\* gives, the email among them; the CSV file is not written
update_customer(email, new_info, list, rows, count) ==
    LET customer == find_customer_by_email(list, email)
        k        == CHOOSE i \in 1..Len(list) :
                        /\ list[i].email = email
                        /\ \A j \in 1..(i - 1) : list[j].email # email
        updated  == [first_name |-> Get(new_info, "first_name", list[k].first_name),
                     last_name  |-> Get(new_info, "last_name", list[k].last_name),
                     email      |-> Get(new_info, "email", list[k].email),
                     phone      |-> Get(new_info, "phone", list[k].phone),
                     address    |-> Get(new_info, "address", list[k].address)]
    IN  IF customer # None
        THEN [value |-> TRUE, customers |-> [list EXCEPT ![k] = updated],
              rows |-> rows, number_of_customers |-> count]
        ELSE [value |-> FALSE, customers |-> list, rows |-> rows,
              number_of_customers |-> count]

\* lines 62-71: the value returned, and the customer list, the CSV rows and
\* Customer.number_of_customers after it; list.remove takes out the object
\* found, and save_all_customers_to_csv writes a row for each customer left
remove_customer(email, list, rows, count) ==
    LET customer == find_customer_by_email(list, email)
        k        == CHOOSE i \in 1..Len(list) :
                        /\ list[i] = customer[1]
                        /\ \A j \in 1..(i - 1) : list[j] # customer[1]
        left     == SubSeq(list, 1, k - 1) \o SubSeq(list, k + 1, Len(list))
    IN  IF customer # None
        THEN [value |-> TRUE, customers |-> left,
              rows |-> [i \in 1..Len(left) |-> CustomerRow(left[i])],
              number_of_customers |-> count]
        ELSE [value |-> FALSE, customers |-> list, rows |-> rows,
              number_of_customers |-> count]

\* lines 83-110: the Customer objects built from the rows of the CSV file
load_customers_from_csv(rows) ==
    [i \in 1..Len(rows) |->
        Customer(rows[i].first_name, rows[i].last_name, rows[i].email,
                 rows[i].phone,
                 Address(rows[i].street, rows[i].city, rows[i].state,
                         rows[i].zipcode, rows[i].country))]

---------------------------------------------------------------------------
(* backend/reservation_controller.py *)

\* lines 73-74: f"{date[0]:02d}-{date[1]:02d}"
DateStr(date) ==
    ZeroPad(Decimal(date[1]), 2) \o <<"-">> \o ZeroPad(Decimal(date[2]), 2)

\* lines 184-186: (int(parts[0]), int(parts[1])) of s.split("-")
mmdd_to_tuple(s) ==
    LET parts == Split(s) IN <<ParseInt(parts[1]), ParseInt(parts[2])>>

\* "not customer" holding for no caller
falsy_never(customer) == FALSE

\* line 51, "not customer": of the values a caller passes, only None is falsy
falsy(customer) == customer = NoCustomer

\* backend/reservation_class.py: a Reservation object, also its CSV row
Reservation(reservation_id, customer_email, room_type, check_in, check_out) ==
    [reservation_id |-> reservation_id, customer_email |-> customer_email,
     room_type |-> room_type, check_in |-> check_in, check_out |-> check_out]

\* the flag of line 96 set whatever the ID
cancelled_by_system_always(reservation_id) == TRUE

\* lines 96-101: ReservationSystem defines no cancel_reservation, so the
\* hasattr test fails and the flag keeps the value of line 96
cancelled_by_system(reservation_id) == FALSE

\* line 105: the reservations whose id is not reservation_id
WithoutId(list, reservation_id) ==
    SelectSeq(list, LAMBDA r : r.reservation_id # reservation_id)

\* the reservations line 105 drops
WithId(list, reservation_id) ==
    SelectSeq(list, LAMBDA r : r.reservation_id = reservation_id)

\* lines 168-197: the rows of the CSV file read one after the other, each
\* appended to the list and written to reservations_db under its ID.  The
\* Customer object found for the row's email is named by that email, a row
\* without one by NoCustomer.
RECURSIVE LoadRows(_, _, _, _)
LoadRows(rows, customer_list, list, db) ==
    IF rows = << >> THEN [reservations |-> list, db |-> db]
    ELSE LET row  == Head(rows)
             r    == Reservation(row.reservation_id, row.customer_email,
                                 row.room_type, row.check_in, row.check_out)
             cust == find_customer_by_email(customer_list, r.customer_email)
         IN  LoadRows(Tail(rows), customer_list, Append(list, r),
                      DbPut(db, r.reservation_id,
                            [customer  |-> IF cust = None THEN NoCustomer
                                           ELSE cust[1].email,
                             room_type |-> r.room_type,
                             check_in  |-> mmdd_to_tuple(r.check_in),
                             check_out |-> mmdd_to_tuple(r.check_out)]))

\* lines 163-203: the controller's list and reservations_db after the load
load_reservations_from_csv(rows, customer_list, list, db) ==
    LoadRows(rows, customer_list, list, db)

---------------------------------------------------------------------------
(* The calls made on the controller, and the record kept of the last one *)

\* (check_in, check_out) pairs: a range over the end of month 1, two days,
\* and a check_out before the check_in
RangeInputs ==
    { <<<<1, 29>>, <<2, 2>>>>, <<<<1, 30>>, <<2, 1>>>>, <<<<2, 2>>, <<1, 30>>>> }

\* (room_type, check_in, check_out) requests: every range for the room type
\* with the fewest rooms, one range for a second catalog type, and a room
\* type that is not in the catalog
RequestInputs ==
    {<<"VIP Suite", range[1], range[2]>> : range \in RangeInputs}
        \cup {<<"Single Room", <<1, 30>>, <<2, 1>>>>,
              <<"Penthouse", <<1, 30>>, <<2, 1>>>>}

\* the availability queries: the requests, and single days
QueryInputs ==
    RequestInputs \cup {<<"VIP Suite", <<1, 30>>, <<1, 30>>>>,
                        <<"VIP Suite", <<2, 2>>, <<2, 2>>>>}

CustomerInputs == {NoCustomer, "ana@csun.edu"}

\* the IDs cancel_reservation is called with: the first two IDs issued, and
\* an ID that is never issued
IdInputs ==
    {generate_reservation_id(k).rid : k \in {1, 2}} \cup {<<"R", "9", "9", "9", "9">>}

\* ReservationSystem.__init__, lines 14-18, with the IDs it has returned
NoSystem == [calendar_head |-> None, reservations_db |-> [id \in {} |-> None],
             issued |-> << >>]

NoCall ==
    [op |-> "none", customer |-> NoCustomer, room_type |-> "",
     check_in |-> <<0, 0>>, check_out |-> <<0, 0>>, arg_id |-> None,
     status |-> "", reason |-> "", rid |-> None, value |-> FALSE,
     checked |-> << >>, stored |-> << >>, pre_head |-> None,
     removed |-> << >>, num_guests |-> 0, types |-> << >>,
     first_name |-> ""]

Init ==
    /\ calendar_head = None
    /\ reservations_db = [id \in {} |-> None]
    /\ reservation_counter = 1
    /\ reservations = << >>
    /\ csv_file = << >>
    /\ customers = << >>
    /\ customers_csv = << >>
    /\ number_of_customers = 0
    /\ second_system = NoSystem
    /\ pc = "ready"
    /\ hist = NoCall
    /\ issued = << >>
    /\ threads = << >>

\* ReservationController.make_reservation, lines 38-88
MakeReservation(customer, room_type, check_in, check_out) ==
    /\ pc = "ready"
    /\ UNCHANGED <<second_system, threads>>
    /\ LET call == [NoCall EXCEPT !.op = "make", !.customer = customer,
                        !.room_type = room_type, !.check_in = check_in,
                        !.check_out = check_out, !.pre_head = calendar_head]
       IN
       IF falsy(customer)
       THEN /\ hist' = [call EXCEPT !.status = "failed",
                                    !.reason = "Invalid customer"]
            /\ UNCHANGED <<calendar_head, reservations_db, reservation_counter,
                           reservations, csv_file, customers, customers_csv,
                           number_of_customers, pc, issued>>
       ELSE
       LET c      == CustomerAttr(customer)
           exists == find_customer_by_email(customers, c.email)
           added  == IF exists = None
                     THEN add_customer(c.first_name, c.last_name, c.email,
                                       c.phone, c.address, customers, customers_csv,
                                       number_of_customers)
                     ELSE [value |-> FALSE, customers |-> customers,
                           rows |-> customers_csv,
                           number_of_customers |-> number_of_customers]
           r      == make_reservation(customer, room_type, check_in, check_out,
                                      calendar_head, reservations_db,
                                      reservation_counter)
           new_reservation == Reservation(r.rid, c.email, room_type,
                                          DateStr(check_in), DateStr(check_out))
       IN  /\ r.counter <= MaxIssued + 1
           /\ customers' = added.customers
           /\ customers_csv' = added.rows
           /\ number_of_customers' = added.number_of_customers
           /\ calendar_head' = r.head
           /\ reservations_db' = r.db
           /\ reservation_counter' = r.counter
           /\ IF ~r.returns
              THEN /\ pc' = "hung"
                   /\ hist' = [call EXCEPT !.status = "hung", !.checked = r.checked,
                                           !.stored = r.stored]
                   /\ UNCHANGED <<reservations, csv_file, issued>>
              ELSE IF r.rid = None
              THEN /\ hist' = [call EXCEPT
                                 !.status = "failed",
                                 !.reason = "No availability or invalid room type",
                                 !.checked = r.checked]
                   /\ UNCHANGED <<reservations, csv_file, pc, issued>>
              ELSE /\ reservations' = Append(reservations, new_reservation)
                   /\ issued' = Append(issued, r.rid)
                   /\ csv_file' = Append(csv_file, new_reservation)
                   /\ hist' = [call EXCEPT !.status = "success", !.rid = r.rid,
                                           !.checked = r.checked,
                                           !.stored = r.stored]
                   /\ UNCHANGED pc

\* ReservationController.cancel_reservation, lines 90-115
CancelReservation(reservation_id) ==
    /\ pc = "ready"
    /\ LET kept == WithoutId(reservations, reservation_id)
           call == [NoCall EXCEPT !.op = "cancel", !.arg_id = reservation_id,
                        !.pre_head = calendar_head,
                        !.removed = WithId(reservations, reservation_id)]
       IN  /\ reservations' = kept
           /\ IF Len(kept) < Len(reservations)
              THEN /\ csv_file' = kept
                   /\ hist' = [call EXCEPT !.status = "success"]
              ELSE /\ UNCHANGED csv_file
                   /\ hist' = IF cancelled_by_system(reservation_id)
                              THEN [call EXCEPT !.status = "success"]
                              ELSE [call EXCEPT
                                      !.status = "failed",
                                      !.reason = "Reservation ID not found"]
    /\ UNCHANGED <<calendar_head, reservations_db, reservation_counter,
                   customers, customers_csv, number_of_customers, second_system,
                   pc, issued, threads>>

\* IsRoomTypeAvailable storing the range it has found available
IsRoomTypeAvailableStoring(room_type, check_in, check_out) ==
    /\ pc = "ready"
    /\ LET r == check_availability(room_type, check_in, check_out, calendar_head)
       IN  /\ r.returns /\ r.value
           /\ calendar_head' = StoreDates(calendar_head, r.visited, room_type)
           /\ hist' = [NoCall EXCEPT !.op = "check", !.room_type = room_type,
                           !.check_in = check_in, !.check_out = check_out,
                           !.pre_head = calendar_head, !.checked = r.visited,
                           !.status = "returned", !.value = TRUE]
    /\ UNCHANGED <<reservations_db, reservation_counter, reservations, csv_file,
                   customers, customers_csv, number_of_customers, second_system,
                   pc, issued, threads>>

\* ReservationController.is_room_type_available, lines 124-129
IsRoomTypeAvailable(room_type, check_in, check_out) ==
    /\ pc = "ready"
    /\ LET r    == check_availability(room_type, check_in, check_out, calendar_head)
           call == [NoCall EXCEPT !.op = "check", !.room_type = room_type,
                        !.check_in = check_in, !.check_out = check_out,
                        !.pre_head = calendar_head, !.checked = r.visited]
       IN  IF r.returns
           THEN /\ hist' = [call EXCEPT !.status = "returned", !.value = r.value]
                /\ UNCHANGED pc
           ELSE /\ hist' = [call EXCEPT !.status = "hung"]
                /\ pc' = "hung"
    /\ UNCHANGED <<calendar_head, reservations_db, reservation_counter,
                   reservations, csv_file, customers, customers_csv,
                   number_of_customers, second_system, issued, threads>>

\* ReservationController.get_available_room_types, lines 117-122
GetAvailableRoomTypes(check_in, check_out, num_guests) ==
    /\ pc = "ready"
    /\ \E order \in RoomTypeOrders :
          LET r    == get_available_room_types(check_in, check_out, num_guests,
                                               calendar_head, order)
              call == [NoCall EXCEPT !.op = "types", !.check_in = check_in,
                           !.check_out = check_out, !.num_guests = num_guests,
                           !.pre_head = calendar_head]
          IN  IF r.returns
              THEN /\ hist' = [call EXCEPT !.status = "returned",
                                           !.types = r.value]
                   /\ UNCHANGED pc
              ELSE /\ hist' = [call EXCEPT !.status = "hung"]
                   /\ pc' = "hung"
    /\ UNCHANGED <<calendar_head, reservations_db, reservation_counter,
                   reservations, csv_file, customers, customers_csv,
                   number_of_customers, second_system, issued, threads>>

Next ==
    \/ \E customer \in CustomerInputs, request \in RequestInputs :
          MakeReservation(customer, request[1], request[2], request[3])
    \/ \E reservation_id \in IdInputs : CancelReservation(reservation_id)
    \/ \E request \in QueryInputs :
          IsRoomTypeAvailable(request[1], request[2], request[3])

Spec == Init /\ [][Next]_vars

---------------------------------------------------------------------------
(* The room types offered for a stay: bookings and the queries for them *)

\* the requests with check_in <= check_out
ForwardRequestInputs ==
    {request \in RequestInputs :
        request[2][1] < request[3][1]
            \/ (request[2][1] = request[3][1] /\ request[2][2] <= request[3][2])}

\* parties of three (too many for a Single Room, just enough for a VIP Suite)
\* and of seven (too many for every room type)
GuestInputs == {3, 7}

NextTypes ==
    \/ \E request \in ForwardRequestInputs :
          MakeReservation("ana@csun.edu", request[1], request[2], request[3])
    \/ \E range \in RangeInputs, num_guests \in GuestInputs :
          GetAvailableRoomTypes(range[1], range[2], num_guests)
    \/ \E query \in QueryInputs :
          IsRoomTypeAvailable(query[1], query[2], query[3])

SpecTypes == Init /\ [][NextTypes]_vars

---------------------------------------------------------------------------
(* The program started again on the CSV files an earlier run left: the     *)
(* module state is initial, and CustomerController(), ReservationSystem()   *)
(* and ReservationController(cc, rs) are constructed as the checkout page   *)
(* does, each controller loading its CSV file.                              *)

\* what the constructors leave behind, given the customers and reservations loaded
Started(customer_list, loaded) ==
    /\ reservation_counter' = 1
    /\ calendar_head' = None
    /\ customers' = customer_list
    /\ number_of_customers' = Len(customer_list)
    /\ reservations' = loaded.reservations
    /\ reservations_db' = loaded.db
    /\ hist' = [NoCall EXCEPT !.op = "start"]

\* CustomerController.__init__ (lines 14-18), ReservationSystem.__init__
\* (lines 14-18) and ReservationController.__init__ (lines 25-35)
StartProcess ==
    /\ pc = "ready"
    /\ Len(issued) <= MaxBeforeStart
    /\ Started(load_customers_from_csv(customers_csv),
               load_reservations_from_csv(csv_file,
                                          load_customers_from_csv(customers_csv),
                                          << >>, [id \in {} |-> None]))
    /\ UNCHANGED <<csv_file, customers_csv, second_system, pc, issued, threads>>

\* two guests, and requests for one stay in a catalog room type, for a room
\* type the hotel does not have, and with the check_out before the check_in
RestartCustomerInputs == {"ana@csun.edu", "bob@csun.edu"}

RestartRequestInputs ==
    {<<"VIP Suite", <<1, 30>>, <<2, 1>>>>, <<"Penthouse", <<1, 30>>, <<2, 1>>>>,
     <<"VIP Suite", <<2, 2>>, <<1, 30>>>>}

NextRestart ==
    \/ \E customer \in RestartCustomerInputs, request \in RestartRequestInputs :
          MakeReservation(customer, request[1], request[2], request[3])
    \/ \E reservation_id \in IdInputs : CancelReservation(reservation_id)
    \/ StartProcess

SpecRestart == Init /\ [][NextRestart]_vars

\* The same with one guest who asks for two different stays, and with the
\* availability query.
ReloadRequestInputs ==
    {<<"VIP Suite", <<1, 30>>, <<2, 1>>>>, <<"Single Room", <<1, 29>>, <<2, 2>>>>}

NextReload ==
    \/ \E request \in ReloadRequestInputs :
          MakeReservation("ana@csun.edu", request[1], request[2], request[3])
    \/ \E reservation_id \in IdInputs : CancelReservation(reservation_id)
    \/ \E request \in ReloadRequestInputs :
          IsRoomTypeAvailable(request[1], request[2], request[3])
    \/ StartProcess

SpecReload == Init /\ [][NextReload]_vars

---------------------------------------------------------------------------
(* The customer controller called directly, and Customer objects            *)
(* constructed by a caller (as the checkout page does for every booking).   *)

\* Customer objects are constructed only while fewer than MaxConstructed were
MaxConstructed == 3

\* (first_name, email): two customers, a second person with the email of the
\* first, and the malformed email of tests/test_customer_controller.py
NewCustomerInputs ==
    {<<"ana", "ana@csun.edu">>, <<"bob", "bob@csun.edu">>,
     <<"anabel", "ana@csun.edu">>, <<"steve", "notvalid">>}

\* what a customer controller call leaves behind, r being its result
CustomerReturn(r, call) ==
    /\ r.number_of_customers <= MaxConstructed
    /\ customers' = r.customers
    /\ customers_csv' = r.rows
    /\ number_of_customers' = r.number_of_customers
    /\ hist' = [call EXCEPT !.value = r.value]

\* CustomerController.add_customer, lines 20-34
AddCustomer(first_name, email) ==
    /\ pc = "ready"
    /\ CustomerReturn(add_customer(first_name, "Guest", email, "818-123-4567",
                                   Address("123 csun street", "Northridge", "CA",
                                           "91330", "USA"),
                                   customers, customers_csv, number_of_customers),
                      [NoCall EXCEPT !.op = "add", !.customer = email,
                                     !.first_name = first_name])
    /\ UNCHANGED <<calendar_head, reservations_db, reservation_counter,
                   reservations, csv_file, second_system, pc, issued, threads>>

\* CustomerController.remove_customer, lines 62-71
RemoveCustomer(email) ==
    /\ pc = "ready"
    /\ CustomerReturn(remove_customer(email, customers, customers_csv,
                                      number_of_customers),
                      [NoCall EXCEPT !.op = "remove", !.customer = email])
    /\ UNCHANGED <<calendar_head, reservations_db, reservation_counter,
                   reservations, csv_file, second_system, pc, issued, threads>>

\* the changes update_customer is called with: the email of another guest,
\* and another first name
NewInfoInputs == {[email |-> "bob@csun.edu"], [first_name |-> "anna"]}

\* CustomerController.update_customer, lines 48-60
UpdateCustomer(email, new_info) ==
    /\ pc = "ready"
    /\ CustomerReturn(update_customer(email, new_info, customers, customers_csv,
                                      number_of_customers),
                      [NoCall EXCEPT !.op = "update", !.customer = email])
    /\ UNCHANGED <<calendar_head, reservations_db, reservation_counter,
                   reservations, csv_file, second_system, pc, issued, threads>>

\* Customer.__init__, customer.py lines 11-26, called by a user of the class
NewCustomer(first_name, email) ==
    /\ pc = "ready"
    /\ number_of_customers < MaxConstructed
    /\ number_of_customers' = add_to_customercount(number_of_customers)
    /\ hist' = [NoCall EXCEPT !.op = "new", !.customer = email,
                              !.first_name = first_name]
    /\ UNCHANGED <<calendar_head, reservations_db, reservation_counter,
                   reservations, csv_file, customers, customers_csv,
                   second_system, pc, issued, threads>>

NextCustomers ==
    \/ \E input \in NewCustomerInputs : AddCustomer(input[1], input[2])
    \/ \E input \in NewCustomerInputs : RemoveCustomer(input[2])
    \/ \E input \in NewCustomerInputs : NewCustomer(input[1], input[2])
    \/ \E email \in {"ana@csun.edu", "eve@csun.edu"}, new_info \in NewInfoInputs :
          UpdateCustomer(email, new_info)

SpecCustomers == Init /\ [][NextCustomers]_vars

---------------------------------------------------------------------------
(* The ledger by itself: store_booking_range called on the calendar for      *)
(* ranges with start <= end, in any order of months, days and room types.    *)

\* a range is stored only when it leaves at most MaxBooked bookings of the
\* room type on each of its dates
MaxBooked == 2

\* two ranges over the end of month 1, one within the other, and a day of
\* month 3
LedgerRangeInputs ==
    { <<<<1, 29>>, <<2, 2>>>>, <<<<1, 30>>, <<2, 1>>>>, <<<<3, 1>>, <<3, 1>>>> }

LedgerTypeInputs == {"VIP Suite", "Single Room"}

\* what a call of store_booking_range leaves behind, st being its result
Stored(st, call) ==
    /\ \A i \in 1..Len(st.visited) :
          get_booked_quantity(st.visited[i][1], st.visited[i][2],
                              call.room_type, st.head) <= MaxBooked
    /\ calendar_head' = st.head
    /\ pc' = IF st.returns THEN pc ELSE "hung"
    /\ hist' = [call EXCEPT !.status = IF st.returns THEN "returned" ELSE "hung",
                            !.stored = st.visited]

\* calendar.store_booking_range, lines 38-110, called on calendar_head
StoreBookingRange(start, end, name) ==
    /\ pc = "ready"
    /\ Stored(store_booking_range(start[1], start[2], end[1], end[2],
                                  [name |-> name], calendar_head),
              [NoCall EXCEPT !.op = "store", !.room_type = name,
                             !.check_in = start, !.check_out = end,
                             !.pre_head = calendar_head])
    /\ UNCHANGED <<reservations_db, reservation_counter, reservations, csv_file,
                   customers, customers_csv, number_of_customers, second_system,
                   issued, threads>>

NextLedger ==
    \E range \in LedgerRangeInputs, name \in LedgerTypeInputs :
        StoreBookingRange(range[1], range[2], name)

SpecLedger == Init /\ [][NextLedger]_vars

---------------------------------------------------------------------------
(* Two ReservationSystem objects of one process (the checkout page and the  *)
(* search controller each construct one): each has its calendar_head and    *)
(* its reservations_db, and both use the module global reservation_counter. *)
(* System 1 is calendar_head, reservations_db and issued; system 2 is       *)
(* second_system.                                                           *)

Systems == {1, 2}

\* what a call of make_reservation on system s leaves behind, r being its result
SystemReturn(s, r, call) ==
    /\ r.counter <= MaxIssued + 1
    /\ reservation_counter' = r.counter
    /\ IF s = 1
       THEN /\ calendar_head' = r.head
            /\ reservations_db' = r.db
            /\ issued' = IF r.returns /\ r.rid # None
                         THEN Append(issued, r.rid) ELSE issued
            /\ UNCHANGED second_system
       ELSE /\ second_system' =
                   [calendar_head   |-> r.head,
                    reservations_db |-> r.db,
                    issued          |-> IF r.returns /\ r.rid # None
                                        THEN Append(second_system.issued, r.rid)
                                        ELSE second_system.issued]
            /\ UNCHANGED <<calendar_head, reservations_db, issued>>
    /\ pc' = IF r.returns THEN pc ELSE "hung"
    /\ hist' = [call EXCEPT
                  !.status = IF ~r.returns THEN "hung"
                             ELSE IF r.rid = None THEN "failed" ELSE "success",
                  !.rid = IF r.returns THEN r.rid ELSE None,
                  !.checked = r.checked, !.stored = r.stored]

\* ReservationSystem.make_reservation, lines 76-97, called on system s
SystemMakeReservation(s, customer, room_type, check_in, check_out) ==
    /\ pc = "ready"
    /\ LET head == IF s = 1 THEN calendar_head ELSE second_system.calendar_head
           db   == IF s = 1 THEN reservations_db
                   ELSE second_system.reservations_db
       IN  SystemReturn(s,
                        make_reservation(customer, room_type, check_in, check_out,
                                         head, db, reservation_counter),
                        [NoCall EXCEPT !.op = "system_make", !.customer = customer,
                             !.room_type = room_type, !.check_in = check_in,
                             !.check_out = check_out, !.pre_head = head])
    /\ UNCHANGED <<reservations, csv_file, customers, customers_csv,
                   number_of_customers, threads>>

NextTwo ==
    \E s \in Systems, request \in ForwardRequestInputs :
        SystemMakeReservation(s, "ana@csun.edu", request[1], request[2], request[3])

SpecTwo == Init /\ [][NextTwo]_vars

---------------------------------------------------------------------------
(* Concurrent callers of ReservationSystem.make_reservation.  The method    *)
(* takes no lock, so another caller can run between its check_availability  *)
(* (line 85), its registration (lines 88-94) and its store_booking_range    *)
(* (line 96).                                                               *)

Threads == {1, 2}

\* the requests of the concurrent callers: those with check_in <= check_out
ConcRequestInputs ==
    {request \in RequestInputs :
        request[2][1] < request[3][1]
            \/ (request[2][1] = request[3][1] /\ request[2][2] <= request[3][2])}

Idle ==
    [pc |-> "idle", room_type |-> "", check_in |-> <<0, 0>>,
     check_out |-> <<0, 0>>, rid |-> None, seen |-> None]

InitConc ==
    /\ calendar_head = None
    /\ reservations_db = [id \in {} |-> None]
    /\ reservation_counter = 1
    /\ reservations = << >>
    /\ csv_file = << >>
    /\ customers = << >>
    /\ customers_csv = << >>
    /\ number_of_customers = 0
    /\ second_system = NoSystem
    /\ pc = "ready"
    /\ hist = NoCall
    /\ issued = << >>
    /\ threads = [t \in Threads |-> Idle]

\* line 85: the caller enters make_reservation and checks availability
ConcCheck(t, room_type, check_in, check_out) ==
    /\ threads[t].pc = "idle"
    /\ LET avail == check_availability(room_type, check_in, check_out, calendar_head)
           call  == [Idle EXCEPT !.room_type = room_type, !.check_in = check_in,
                                 !.check_out = check_out, !.seen = calendar_head]
       IN  threads' = [threads EXCEPT ![t] =
                          IF ~avail.returns THEN [call EXCEPT !.pc = "hung"]
                          ELSE IF ~avail.value THEN [call EXCEPT !.pc = "done"]
                          ELSE [call EXCEPT !.pc = "register"]]
    /\ UNCHANGED <<calendar_head, reservations_db, reservation_counter,
                   reservations, csv_file, customers, customers_csv,
                   number_of_customers, second_system, pc, hist, issued>>

\* lines 88-94: the caller takes an ID and registers the reservation
ConcRegister(t) ==
    /\ threads[t].pc = "register"
    /\ reservation_counter <= MaxIssued
    /\ LET g == generate_reservation_id(reservation_counter)
       IN  /\ reservation_counter' = g.counter
           /\ reservations_db' =
                  DbPut(reservations_db, g.rid,
                        [customer |-> "ana@csun.edu",
                         room_type |-> threads[t].room_type,
                         check_in |-> threads[t].check_in,
                         check_out |-> threads[t].check_out])
           /\ threads' = [threads EXCEPT ![t].pc = "store", ![t].rid = g.rid]
    /\ UNCHANGED <<calendar_head, reservations, csv_file, customers,
                   customers_csv, number_of_customers, second_system, pc, hist,
                   issued>>

\* lines 96-97: the caller books the range and returns the ID
ConcStore(t) ==
    /\ threads[t].pc = "store"
    /\ LET st == store_booking_range(threads[t].check_in[1], threads[t].check_in[2],
                                     threads[t].check_out[1], threads[t].check_out[2],
                                     [name |-> threads[t].room_type], calendar_head)
       IN  /\ calendar_head' = st.head
           /\ threads' = [threads EXCEPT ![t].pc =
                             IF st.returns THEN "done" ELSE "hung"]
    /\ issued' = Append(issued, threads[t].rid)
    /\ UNCHANGED <<reservations_db, reservation_counter, reservations, csv_file,
                   customers, customers_csv, number_of_customers, second_system,
                   pc, hist>>

\* the caller has its result and may call again
ConcReturn(t) ==
    /\ threads[t].pc = "done"
    /\ threads' = [threads EXCEPT ![t] = Idle]
    /\ UNCHANGED <<calendar_head, reservations_db, reservation_counter,
                   reservations, csv_file, customers, customers_csv,
                   number_of_customers, second_system, pc, hist, issued>>

NextConc ==
    \/ \E t \in Threads, request \in ConcRequestInputs :
          ConcCheck(t, request[1], request[2], request[3])
    \/ \E t \in Threads : ConcRegister(t)
    \/ \E t \in Threads : ConcStore(t)
    \/ \E t \in Threads : ConcReturn(t)

SpecConc == InitConc /\ [][NextConc]_vars

---------------------------------------------------------------------------
(* What the claims speak of *)

\* the room types of the hotel catalog
CatalogTypes == {HotelRooms[i].room_type : i \in 1..Len(HotelRooms)}

\* the booked count of the ledger for a date and a room type
Booked(head, date, room_type) ==
    get_booked_quantity(date[1], date[2], room_type, head)

\* the dates that have a day node in the ledger
StoredDates(head) ==
    UNION {{<<head[m].month_number, head[m].day_list_head[d].day_number>> :
                d \in 1..Len(head[m].day_list_head)} :
           m \in 1..Len(head)}

\* the room types that have a tuple in the ledger
StoredTypes(head) ==
    UNION {UNION {{head[m].day_list_head[d].bookings[t][1] :
                       t \in 1..Len(head[m].day_list_head[d].bookings)} :
                  d \in 1..Len(head[m].day_list_head)} :
           m \in 1..Len(head)}

\* the calendar of the data model: months 1..12 of DaysPerMonth days
CalendarDates == (1..12) \X (1..DaysPerMonth)

\* month/day lexicographic order
DateLE(a, b) == a[1] < b[1] \/ (a[1] = b[1] /\ a[2] <= b[2])

\* the dates of the inclusive range [check_in, check_out]
RangeDates(check_in, check_out) ==
    {date \in CalendarDates : DateLE(check_in, date) /\ DateLE(date, check_out)}

\* the two ledgers hold the same booked count for every date and room type
SameCounts(h1, h2) ==
    \A date \in StoredDates(h1) \cup StoredDates(h2),
       room_type \in StoredTypes(h1) \cup StoredTypes(h2) \cup CatalogTypes :
        Booked(h1, date, room_type) = Booked(h2, date, room_type)

\* the number of a reservation ID: the digits after the "R"
IdNumber(rid) == ParseInt(SubSeq(rid, 2, Len(rid)))

NoAvailabilityReason == "No availability or invalid room type"

\* the number of decimal digits of k, for 1 <= k < 10^6
NumDigits(k) == CHOOSE n \in 1..6 : 10^(n - 1) <= k /\ k < 10^n

\* rid is "R" followed by k, zero-padded to IdWidth digits and never cut
IsIdOf(rid, k) ==
    /\ rid[1] = "R"
    /\ Len(rid) = 1 + (IF NumDigits(k) < IdWidth THEN IdWidth ELSE NumDigits(k))
    /\ \A i \in 2..Len(rid) : \E v \in 0..9 : Digits[v + 1] = rid[i]
    /\ IdNumber(rid) = k

\* what the caller can observe of the last call's result
Outcome(h) == <<h.status, h.reason, h.value, h.rid>>

\* the outcome of a call for a catalog room type without availability
NoAvailabilityOutcome(op) ==
    IF op = "make" THEN <<"failed", NoAvailabilityReason, FALSE, None>>
    ELSE <<"returned", "", FALSE, None>>

---------------------------------------------------------------------------
(* The claims *)

\* C1: after any sequence of make_reservation and cancel_reservation calls,
\* the booked count of the ledger for every date and every catalog room type
\* is at most the number of rooms of that type.
C1_CapacityInvariant ==
    \A room_type \in CatalogTypes, date \in StoredDates(calendar_head) :
        Booked(calendar_head, date, room_type) <= total_quantity(room_type)

\* C1 witness: after a cancellation, some date is booked to capacity
C1_Witness ==
    /\ hist.op = "cancel" /\ hist.status = "success"
    /\ \E date \in StoredDates(calendar_head) :
          Booked(calendar_head, date, "VIP Suite") = total_quantity("VIP Suite")

\* C2: a make_reservation rejected because a date of its range is at
\* capacity leaves the booked count of every date and room type as it was.
C2_NoPartialApplication ==
    (/\ hist.op = "make" /\ hist.status = "failed"
     /\ hist.reason = NoAvailabilityReason)
        => SameCounts(calendar_head, hist.pre_head)

\* C2 witness: a request rejected for a date at capacity after its first date,
\* which was free
C2_Witness ==
    /\ hist.op = "make" /\ hist.status = "failed"
    /\ hist.room_type \in CatalogTypes
    /\ DateLE(hist.check_in, hist.check_out)
    /\ Booked(hist.pre_head, hist.check_in, hist.room_type)
           < total_quantity(hist.room_type)
    /\ \E date \in RangeDates(hist.check_in, hist.check_out) :
          Booked(hist.pre_head, date, hist.room_type)
              >= total_quantity(hist.room_type)

\* C3: a successful make_reservation followed by cancel_reservation of the ID
\* it returned restores the booked count of every date of the range, for the
\* room type, to its value before the make_reservation.
C3_RoundTrip ==
    [][(/\ hist.op = "make" /\ hist.status = "success"
        /\ hist'.op = "cancel" /\ hist'.status = "success"
        /\ hist'.arg_id = hist.rid)
           => \A date \in RangeDates(hist.check_in, hist.check_out) :
                 Booked(calendar_head', date, hist.room_type)
                     = Booked(hist.pre_head, date, hist.room_type)]_vars

\* C4: when a request for a catalog room type is rejected only for dates
\* that are booked to capacity and lie in the range of a reservation of that
\* type, then once that reservation is cancelled the same request succeeds.
C4_CapacityFreedByCancel ==
    [][(/\ hist.op = "cancel" /\ hist.status = "success"
        /\ Len(hist.removed) = 1
        /\ hist'.op = "make" /\ hist'.customer # NoCustomer
        /\ hist'.room_type = hist.removed[1].room_type
        /\ hist'.room_type \in CatalogTypes
        /\ DateLE(hist'.check_in, hist'.check_out)
        /\ \E date \in RangeDates(hist'.check_in, hist'.check_out) :
              Booked(hist.pre_head, date, hist'.room_type)
                  >= total_quantity(hist'.room_type)
        /\ \A date \in RangeDates(hist'.check_in, hist'.check_out) :
              Booked(hist.pre_head, date, hist'.room_type)
                      >= total_quantity(hist'.room_type)
                  => /\ Booked(hist.pre_head, date, hist'.room_type)
                            = total_quantity(hist'.room_type)
                     /\ date \in RangeDates(mmdd_to_tuple(hist.removed[1].check_in),
                                            mmdd_to_tuple(hist.removed[1].check_out)))
           => hist'.status = "success"]_vars

\* C5: the number of each reservation ID issued is greater than that of
\* every ID issued before it, whatever was cancelled in between, and the ID
\* counter never decreases.
C5_IdMonotonic ==
    /\ [](/\ \A i, j \in 1..Len(issued) :
               i < j => IdNumber(issued[i]) < IdNumber(issued[j])
          /\ \A i \in 1..Len(issued) : IdNumber(issued[i]) < reservation_counter)
    /\ [][reservation_counter' >= reservation_counter]_vars

\* C5 witness: an ID is issued after an earlier reservation was cancelled
C5_Witness ==
    /\ hist.op = "make" /\ hist.status = "success"
    /\ Len(issued) >= 3
    /\ \E i \in 1..Len(issued) :
          \A k \in 1..Len(reservations) :
              reservations[k].reservation_id # issued[i]

\* C7: a make_reservation whose check_out is before its check_in ends with a
\* rejection: it returns, no reservation is created and no count changes.
C7_ReversedRangeRejected ==
    (/\ hist.op = "make" /\ hist.customer # NoCustomer
     /\ ~DateLE(hist.check_in, hist.check_out))
        => /\ hist.status = "failed"
           /\ pc = "ready"
           /\ SameCounts(calendar_head, hist.pre_head)

\* C9: for a catalog room type and check_in <= check_out, check_availability
\* returns True exactly when every date of the inclusive range is booked
\* below the number of rooms of the type; a single-day range examines that
\* one date only.
C9_AvailabilityIffAllDatesFree ==
    (/\ hist.op = "check"
     /\ hist.room_type \in CatalogTypes
     /\ DateLE(hist.check_in, hist.check_out))
        => /\ hist.status = "returned"
           /\ hist.value <=>
                  \A date \in RangeDates(hist.check_in, hist.check_out) :
                      Booked(hist.pre_head, date, hist.room_type)
                          < total_quantity(hist.room_type)
           /\ hist.check_in = hist.check_out => hist.checked = <<hist.check_in>>

\* C9 witness: a check over several dates that fails for a date after the
\* first one
C9_Witness ==
    /\ hist.op = "check" /\ hist.status = "returned" /\ ~hist.value
    /\ hist.room_type \in CatalogTypes
    /\ hist.check_in # hist.check_out
    /\ DateLE(hist.check_in, hist.check_out)
    /\ Booked(calendar_head, hist.check_in, hist.room_type)
           < total_quantity(hist.room_type)

C6_LastUnitNotSoldTwice ==
    \A t1, t2 \in Threads :
        ~(/\ t1 # t2
          /\ threads[t1].pc = "done" /\ threads[t1].rid # None
          /\ threads[t2].pc = "done" /\ threads[t2].rid # None
          /\ threads[t1].room_type = threads[t2].room_type
          /\ \E date \in RangeDates(threads[t1].check_in, threads[t1].check_out)
                      \cap RangeDates(threads[t2].check_in, threads[t2].check_out) :
                /\ Booked(threads[t1].seen, date, threads[t1].room_type)
                       = total_quantity(threads[t1].room_type) - 1
                /\ Booked(threads[t2].seen, date, threads[t2].room_type)
                       = total_quantity(threads[t2].room_type) - 1)

\* C8: a range steps day by day, day 30 of a month being followed by day 1
\* of the next month; the range (1,29)..(2,2) visits (1,29), (1,30), (2,1)
\* and (2,2) and nothing else; no date with day 31 is visited or stored.
C8_ThirtyDayRollover ==
    /\ \A date \in StoredDates(calendar_head) : date[2] \in 1..30
    /\ \A visited \in {hist.checked, hist.stored} :
          /\ \A i \in 1..Len(visited) : visited[i][2] \in 1..30
          /\ \A i \in 1..(Len(visited) - 1) :
                visited[i + 1] = IF visited[i][2] = 30
                                 THEN <<visited[i][1] + 1, 1>>
                                 ELSE <<visited[i][1], visited[i][2] + 1>>
    /\ (/\ hist.op = "make" /\ hist.status = "success"
        /\ hist.check_in = <<1, 29>> /\ hist.check_out = <<2, 2>>)
           => /\ hist.checked = << <<1, 29>>, <<1, 30>>, <<2, 1>>, <<2, 2>> >>
              /\ hist.stored = << <<1, 29>>, <<1, 30>>, <<2, 1>>, <<2, 2>> >>
              /\ \A date \in CalendarDates \cup {<<1, 31>>} :
                    Booked(calendar_head, date, hist.room_type)
                        = Booked(hist.pre_head, date, hist.room_type)
                          + (IF date \in {<<1, 29>>, <<1, 30>>, <<2, 1>>, <<2, 2>>}
                             THEN 1 ELSE 0)

\* C8 witness: the range (1,29)..(2,2) has been booked
C8_Witness ==
    /\ hist.op = "make" /\ hist.status = "success"
    /\ hist.check_in = <<1, 29>> /\ hist.check_out = <<2, 2>>
    /\ hist.pre_head # None

\* C11: once cancel_reservation(id) has reported success, no reservation with
\* that ID is in reservations_db or in the controller's list, and a second
\* cancel_reservation(id) reports that the ID was not found.
C11_CancelledLeavesNoRecord ==
    /\ []((hist.op = "cancel" /\ hist.status = "success")
            => /\ hist.arg_id \notin DOMAIN reservations_db
               /\ \A k \in 1..Len(reservations) :
                      reservations[k].reservation_id # hist.arg_id)
    /\ [][(/\ hist.op = "cancel" /\ hist.status = "success"
            /\ hist'.op = "cancel" /\ hist'.arg_id = hist.arg_id)
               => /\ hist'.status = "failed"
                  /\ hist'.reason = "Reservation ID not found"]_vars

\* C12: cancel_reservation with an ID that no reservation of the list holds
\* fails with "Reservation ID not found" and leaves the list, its CSV, the
\* registry, the ID counter and the ledger as they were.
C12_CancelUnknownId ==
    [][(/\ hist'.op = "cancel"
        /\ \A k \in 1..Len(reservations) :
               reservations[k].reservation_id # hist'.arg_id)
           => /\ hist'.status = "failed"
              /\ hist'.reason = "Reservation ID not found"
              /\ UNCHANGED <<reservations, csv_file, reservations_db,
                             reservation_counter, calendar_head>>]_vars

\* C12 witness: the list holds a reservation, and the cancellation of an ID
\* that was cancelled before has failed
C12_Witness ==
    /\ hist.op = "cancel" /\ hist.status = "failed"
    /\ hist.arg_id \in DOMAIN reservations_db
    /\ reservations # << >>

\* C13: make_reservation without a customer fails with "Invalid customer";
\* no ID is issued, no reservation is stored, and the ledger, the registry
\* and the customer records stay as they were.
C13_NullCustomerRejected ==
    [][(hist'.op = "make" /\ hist'.customer = NoCustomer)
           => /\ hist'.status = "failed"
              /\ hist'.reason = "Invalid customer"
              /\ hist'.rid = None
              /\ UNCHANGED <<reservation_counter, issued, reservations, csv_file,
                             reservations_db, calendar_head, customers,
                             customers_csv, number_of_customers>>]_vars

\* C13 witness: a request without a customer was rejected while reservations
\* and customers are held
C13_Witness ==
    /\ hist.op = "make" /\ hist.customer = NoCustomer
    /\ hist.status = "failed"
    /\ reservations # << >> /\ customers # << >>

\* C14: get_available_room_types(check_in, check_out, num_guests) returns the
\* catalog room types whose max_guests >= num_guests and for which
\* check_availability is true over the range, these and no others, each
\* once; for check_in <= check_out it returns.
C14_AvailableRoomTypes ==
    /\ (hist.op = "types" /\ hist.status = "returned")
           => /\ {hist.types[i].name : i \in 1..Len(hist.types)}
                     = {rtype \in CatalogTypes :
                           /\ \E i \in 1..Len(HotelRooms) :
                                  /\ HotelRooms[i].room_type = rtype
                                  /\ HotelRooms[i].max_guests >= hist.num_guests
                           /\ check_availability(rtype, hist.check_in,
                                                 hist.check_out,
                                                 hist.pre_head).value}
              /\ \A i, j \in 1..Len(hist.types) :
                     hist.types[i].name = hist.types[j].name => i = j
    /\ (hist.op = "types" /\ DateLE(hist.check_in, hist.check_out))
           => hist.status = "returned"

\* C14 witness: a list that leaves out a free room type too small for the
\* party and a room type large enough but booked out
C14_Witness ==
    /\ hist.op = "types" /\ hist.status = "returned"
    /\ Len(hist.types) >= 2
    /\ check_availability("Single Room", hist.check_in, hist.check_out,
                          hist.pre_head).value
    /\ \A i \in 1..Len(hist.types) :
          hist.types[i].name \notin {"Single Room", "VIP Suite"}

\* C15: the k-th ID a ReservationSystem returns is "R" followed by k,
\* zero-padded to four digits, whatever other ReservationSystem objects of
\* the process have issued.
C15_SequentialPerRegistry ==
    \A ids \in {issued, second_system.issued} :
        \A k \in 1..Len(ids) : IsIdOf(ids[k], k)

\* C16 as claimed: after any make_reservation or cancel_reservation call the
\* customer controller holds the customers it held before the call.
C16_CustomersNeverMutated ==
    [][hist'.op \in {"make", "cancel"} => customers' = customers]_vars

\* C16 as amended: make_reservation for a customer whose email the customer
\* controller does not hold appends that customer to its list and its CSV
\* file, whether the request then succeeds or not; any other
\* make_reservation and every cancel_reservation leaves both as they were.
\* The customers held before stay, unchanged and in place.
C16_CustomersOnlyAdded ==
    [][/\ hist'.op = "cancel" => UNCHANGED <<customers, customers_csv>>
       /\ hist'.op = "make" =>
              IF /\ hist'.customer # NoCustomer
                 /\ \A i \in 1..Len(customers) :
                        customers[i].email # CustomerAttr(hist'.customer).email
              THEN /\ customers' = Append(customers, CustomerAttr(hist'.customer))
                   /\ customers_csv' =
                          Append(customers_csv,
                                 CustomerRow(CustomerAttr(hist'.customer)))
              ELSE UNCHANGED <<customers, customers_csv>>]_vars

\* C16 witness: a second customer is held whose only requests were rejected
C16_Witness ==
    /\ hist.op = "make" /\ hist.status = "failed"
    /\ Len(customers) = 2 /\ customers[2].email = hist.customer
    /\ reservations # << >>
    /\ \A id \in DOMAIN reservations_db :
          reservations_db[id].customer # hist.customer

\* C19: for every room type and date, the booked count of the ledger is the
\* number of reservations of reservations_db with that room type whose
\* range holds the date, reservations written by load_reservations_from_csv
\* included.
C19_LedgerMatchesRegistry ==
    \A room_type \in CatalogTypes \cup StoredTypes(calendar_head),
       date \in CalendarDates :
        Booked(calendar_head, date, room_type)
            = Cardinality({id \in DOMAIN reservations_db :
                  /\ reservations_db[id].room_type = room_type
                  /\ date \in RangeDates(reservations_db[id].check_in,
                                         reservations_db[id].check_out)})

C18_CustomerCount ==
    [][/\ number_of_customers' >= number_of_customers
       /\ (hist'.op = "new" \/ (hist'.op = "add" /\ hist'.value))
              => number_of_customers' = number_of_customers + 1
       /\ (hist'.op = "remove" \/ (hist'.op = "add" /\ ~hist'.value))
              => number_of_customers' = number_of_customers]_vars

\* C18 witness: a customer was removed after several constructions
C18_Witness ==
    /\ hist.op = "remove" /\ hist.value = TRUE
    /\ number_of_customers >= 2
    /\ Len(customers) < number_of_customers

\* C20: store_booking_range(start, end, T) with start <= end returns, having
\* added 1 to the booked count of T on every date of the inclusive range and
\* on no other date, and nothing to the count of any other room type; the
\* dates it steps through are those check_availability examines for the
\* range, in the same order.
C20_StoreBookingRangeFrame ==
    (hist.op = "store" /\ DateLE(hist.check_in, hist.check_out))
        => /\ hist.status = "returned"
           /\ \A date \in StoredDates(calendar_head) \cup StoredDates(hist.pre_head)
                          \cup RangeDates(hist.check_in, hist.check_out),
                 room_type \in StoredTypes(calendar_head) \cup CatalogTypes :
                  Booked(calendar_head, date, room_type)
                      = Booked(hist.pre_head, date, room_type)
                        + (IF /\ room_type = hist.room_type
                              /\ date \in RangeDates(hist.check_in, hist.check_out)
                           THEN 1 ELSE 0)
           /\ hist.stored = check_availability("Double Room", hist.check_in,
                                               hist.check_out, None).visited

\* C20 witness: a range over the end of a month was stored in a ledger that
\* held the other room type on its dates and a later month
C20_Witness ==
    /\ hist.op = "store" /\ hist.status = "returned"
    /\ hist.check_in # hist.check_out
    /\ \E m \in 1..Len(hist.pre_head) :
          hist.pre_head[m].month_number > hist.check_out[1]
    /\ \E room_type \in CatalogTypes \ {hist.room_type} :
          \A date \in RangeDates(hist.check_in, hist.check_out) :
              Booked(hist.pre_head, date, room_type) > 0

\* C21: after any sequence of store_booking_range calls, whatever the order
\* of their months and days, the month nodes of the calendar list have
\* strictly increasing month numbers and the day nodes of every month have
\* strictly increasing day numbers, so that no month and no day of a month
\* has two nodes.
C21_CalendarSorted ==
    /\ \A i, j \in 1..Len(calendar_head) :
          i < j => calendar_head[i].month_number < calendar_head[j].month_number
    /\ \A m \in 1..Len(calendar_head) :
          \A i, j \in 1..Len(calendar_head[m].day_list_head) :
              i < j => calendar_head[m].day_list_head[i].day_number
                           < calendar_head[m].day_list_head[j].day_number

\* C21 witness: a range starting in an earlier month than the head of the
\* list has been stored, and its month holds an earlier and a later day
C21_Witness ==
    /\ hist.op = "store" /\ hist.status = "returned"
    /\ hist.pre_head # None
    /\ hist.check_in[1] < hist.pre_head[1].month_number
    /\ Len(calendar_head) = 3
    /\ Len(calendar_head[1].day_list_head) = 2

\* the (date, room type) pairs a call of store_booking_range has covered
Covered(call) ==
    {<<call.stored[i], call.room_type>> : i \in 1..Len(call.stored)}

\* the (date, room type) pairs that have a tuple in the ledger
Entries(head) ==
    UNION {UNION {{<<<<head[m].month_number, head[m].day_list_head[d].day_number>>,
                     head[m].day_list_head[d].bookings[t][1]>> :
                       t \in 1..Len(head[m].day_list_head[d].bookings)} :
                  d \in 1..Len(head[m].day_list_head)} :
           m \in 1..Len(head)}

\* the dates looked up: the months the calls store into and the one after
LookupDates == {date \in CalendarDates : date[1] <= 4}

\* every day node holds a tuple, at most one tuple for a room type, and no
\* quantity under 1; count_booked_rooms is 0 where the ledger has no tuple
LazyEntries(head) ==
    /\ \A m \in 1..Len(head) :
          \A d \in 1..Len(head[m].day_list_head) :
              LET bookings == head[m].day_list_head[d].bookings
              IN  /\ bookings # << >>
                  /\ \A s, t \in 1..Len(bookings) :
                        s # t => bookings[s][1] # bookings[t][1]
                  /\ \A t \in 1..Len(bookings) : bookings[t][2] >= 1
    /\ \A date \in LookupDates, room_type \in CatalogTypes :
          IF <<date, room_type>> \in Entries(head)
          THEN count_booked_rooms(date[1], date[2], [name |-> room_type], head) >= 1
          ELSE count_booked_rooms(date[1], date[2], [name |-> room_type], head) = 0

\* C22: the ledger is filled lazily: a day node, and in it a tuple of a room
\* type, comes to exist only by a store_booking_range call for that room type
\* that covers the date; a day node holds at most one tuple for a room type,
\* every quantity is at least 1, and the point lookup count_booked_rooms
\* yields 0 for a date or a room type without an entry.
C22_LazyLedgerEntries ==
    /\ []LazyEntries(calendar_head)
    /\ [][Entries(calendar_head') \ Entries(calendar_head) \subseteq Covered(hist')]_vars

\* C22 witness: a call has added a second room type to existing day nodes
\* and created a day node, next to a date booked twice for its room type
C22_Witness ==
    /\ hist.op = "store" /\ hist.status = "returned"
    /\ StoredDates(calendar_head) # StoredDates(hist.pre_head)
    /\ \E date \in StoredDates(hist.pre_head) :
          /\ <<date, hist.room_type>> \in Entries(calendar_head) \ Entries(hist.pre_head)
          /\ \E room_type \in CatalogTypes :
                count_booked_rooms(date[1], date[2], [name |-> room_type],
                                   calendar_head) = 2

\* the dates a loop has visited are dates of the inclusive range, none twice
VisitsWithin(visited, check_in, check_out) ==
    /\ Len(visited) <= Cardinality(RangeDates(check_in, check_out))
    /\ \A i \in 1..Len(visited) : visited[i] \in RangeDates(check_in, check_out)
    /\ \A i, j \in 1..Len(visited) : i # j => visited[i] # visited[j]

\* C23: for dates of the calendar with check_in <= check_out,
\* check_availability, get_available_room_types and make_reservation return,
\* and each pass they make over the range (the check of a room type, the
\* store) visits at most as many dates as the inclusive range holds, all of
\* them dates of the range.
C23_ForwardRangeTerminates ==
    (/\ hist.op \in {"make", "check", "types"}
     /\ hist.check_in \in CalendarDates /\ hist.check_out \in CalendarDates
     /\ DateLE(hist.check_in, hist.check_out))
        => /\ hist.status # "hung" /\ pc # "hung"
           /\ VisitsWithin(hist.checked, hist.check_in, hist.check_out)
           /\ VisitsWithin(hist.stored, hist.check_in, hist.check_out)
           /\ hist.op = "types" =>
                 \A rtype \in room_types :
                     LET r == check_availability(rtype, hist.check_in,
                                                 hist.check_out, hist.pre_head)
                     IN  r.returns /\ VisitsWithin(r.visited, hist.check_in,
                                                   hist.check_out)

\* C23 witness: a reservation over the end of a month was made, its check
\* and its store each visiting the four dates of the range
C23_Witness ==
    /\ hist.op = "make" /\ hist.status = "success"
    /\ hist.pre_head # None
    /\ Cardinality(RangeDates(hist.check_in, hist.check_out)) = 4
    /\ Len(hist.checked) = 4 /\ Len(hist.stored) = 4

\* C24: an availability query (check_availability through
\* is_room_type_available, get_available_room_types) leaves the ledger, the
\* registry and the ID counter as they were, whatever it returns and also
\* when it does not return.
C24_QueriesReadOnly ==
    [][hist'.op \in {"check", "types"}
          => UNCHANGED <<calendar_head, reservations_db, reservation_counter>>]_vars

\* C24 witness: a query on a ledger holding reservations has answered that
\* a catalog room type is not available
C24_Witness ==
    /\ hist.op = "check" /\ hist.status = "returned" /\ hist.value = FALSE
    /\ hist.room_type \in CatalogTypes
    /\ DOMAIN reservations_db # {} /\ calendar_head # None
    /\ reservation_counter > 1

\* C25: a reservation stored in the registry keeps its room type, check_in
\* and check_out: no later make_reservation, cancel_reservation of another
\* ID or availability query changes what the registry records for its ID.
C25_StoredReservationImmutable ==
    [][hist'.op \in {"make", "cancel", "check"}
          => \A rid \in DOMAIN reservations_db :
                (hist'.op = "cancel" /\ hist'.arg_id = rid)
                    \/ /\ rid \in DOMAIN reservations_db'
                       /\ reservations_db'[rid].room_type
                              = reservations_db[rid].room_type
                       /\ reservations_db'[rid].check_in
                              = reservations_db[rid].check_in
                       /\ reservations_db'[rid].check_out
                              = reservations_db[rid].check_out]_vars

\* C26: the ID a successful make_reservation issues is not the ID of a
\* reservation the registry already holds, those put there by
\* load_reservations_from_csv included, so that storing the new record
\* overwrites none.
C26_IssuedIdNotHeld ==
    [][(hist'.op = "make" /\ hist'.status = "success")
          => hist'.rid \notin DOMAIN reservations_db]_vars

\* the reservations of the controller's list for the room type whose stay
\* contains the date
HeldOn(list, room_type, date) ==
    {i \in 1..Len(list) :
        /\ list[i].room_type = room_type
        /\ date \in RangeDates(mmdd_to_tuple(list[i].check_in),
                               mmdd_to_tuple(list[i].check_out))}

\* C27: for every room type and date, the reservations the controller holds
\* (made or loaded, and not cancelled) for that room type over that date are
\* no more than the rooms of the type.
C27_HeldWithinCapacity ==
    \A room_type \in CatalogTypes, date \in {<<1, 29>>, <<1, 30>>, <<2, 1>>, <<2, 2>>} :
        Cardinality(HeldOn(reservations, room_type, date))
            <= total_quantity(room_type)

\* the IDs of the reservations in the controller's list
ListIds(list) == {list[k].reservation_id : k \in 1..Len(list)}

\* C28: after any sequence of controller make_reservation and
\* cancel_reservation calls that have returned, starting from an empty
\* store, the controller's list and reservations_db hold the same set of
\* reservation IDs: a successful make adds the ID to both and a successful
\* cancel removes it from both.
C28_ListMatchesRegistry ==
    pc = "ready" => ListIds(reservations) = DOMAIN reservations_db

\* C29: a make_reservation rejected for lack of availability allocates no
\* ID and stores no record: the counter, the registry and the controller's
\* list are as before the call, and the next successful reservation gets
\* the number directly after the last one issued (the number 1 when none was).
C29_RejectedAllocatesNothing ==
    /\ [][(/\ hist'.op = "make" /\ hist'.status = "failed"
            /\ hist'.reason = NoAvailabilityReason)
              => UNCHANGED <<reservation_counter, reservations_db, reservations,
                             csv_file, issued>>]_vars
    /\ [][(hist'.op = "make" /\ hist'.status = "success")
              => IdNumber(hist'.rid)
                     = IF issued = << >> THEN 1
                       ELSE IdNumber(issued[Len(issued)]) + 1]_vars

\* C29 witness: a request for a catalog room type was rejected on a full
\* date after IDs had been issued, and the counter still names the number
\* after the last one issued
C29_Witness ==
    /\ hist.op = "make" /\ hist.status = "failed"
    /\ hist.reason = NoAvailabilityReason
    /\ hist.room_type \in CatalogTypes
    /\ Len(issued) >= 3
    /\ reservation_counter = IdNumber(issued[Len(issued)]) + 1
    /\ \E date \in RangeDates(hist.check_in, hist.check_out) :
          Booked(calendar_head, date, hist.room_type)
              >= total_quantity(hist.room_type)

\* C30: after any sequence of add_customer, update_customer and
\* remove_customer calls from an empty customer list, no two customers held
\* have the same email, so that find_customer_by_email identifies at most
\* one customer.
C30_EmailsUnique ==
    \A i, j \in 1..Len(customers) :
        i # j => customers[i].email # customers[j].email

=============================================================================
